---- MODULE Spec2Model ----
(***************************************************************************)
(* Model of src/main.py (yfinance-trader): the Indian-exchange symbol      *)
(* resolver and the seven tool handlers.  The program keeps no state       *)
(* between invocations; the state below is that of the invocation in       *)
(* progress: the handler's position (pc), its local variables, the         *)
(* requests it has sent to the market-data provider or the indicator       *)
(* library so far (calls, with what came back), and how it ended           *)
(* (response, raised).  Invocations share nothing (the module keeps no     *)
(* mutable global), so a behaviour is one invocation from the idle server  *)
(* to the handler's end.  A handler advances by one action per external    *)
(* request; everything it does between two requests belongs to the same    *)
(* action.  What the provider and the library answer is not under the      *)
(* program's control and is chosen nondeterministically at each request.   *)
(*                                                                         *)
(* Strings that the code takes apart (symbols, the keywords argument) are  *)
(* sequences of one-character strings.  Python values are written as       *)
(* strings: "0" and "0.0" are the numbers 0 and 0.0, "" is the empty       *)
(* string, None is Python's None.                                          *)
(***************************************************************************)
EXTENDS Integers, Sequences, FiniteSets, TLC

VARIABLES pc, tool, args, symbol, calls, locals, response, raised

vars == <<pc, tool, args, symbol, calls, locals, response, raised>>

\* ---------------------------------------------------------------- bounds
\* Upstream records deviate from the complete record in at most MaxOmit keys.
MaxOmit == 1
\* Upstream tables (history, recommendations, insider) have at most MaxRows rows.
MaxRows == 2
\* An explicitly supplied `indicators` list has at most MaxInd names
\* (SampleLists adds a few longer ones).
MaxInd == 1
\* The `keywords` argument has at most MaxKwLen characters.
MaxKwLen == 3

\* ---------------------------------------------------------------- values
None == "None"
NaN == "NaN"
\* An exception raised by the provider client or the indicator library.
Raise == [exception |-> TRUE]
\* No value: nothing returned yet.
NoResponse == [pending |-> TRUE]
NoLocals == [none |-> TRUE]
\* None where a table was expected.
NoneFrame == [isNone |-> TRUE]

NS == <<".", "N", "S">>
BO == <<".", "B", "O">>
INDIAN_SUFFIXES == <<NS, BO>>

\* str.endswith
endswith(s, sfx) ==
    /\ Len(s) >= Len(sfx)
    /\ SubSeq(s, Len(s) - Len(sfx) + 1, Len(s)) = sfx

\* dict.get(key, default) / Series.get(key, default)
get(d, key, default) == IF key \in DOMAIN d THEN d[key] ELSE default

\* The symbols callers pass: bare, already suffixed, and look-alikes.
RawSymbols ==
    { <<"A">>, <<"A">> \o NS, <<"A">> \o BO, <<"N", "S">>, BO }

\* Records with the keys of `keys` that deviate from the complete record
\* `full` (a key left out, or present holding None) in at most MaxOmit keys.
Dicts(full) ==
    LET keys == DOMAIN full IN
    UNION { UNION { { [k \in keys \ gone |->
                          IF k \in nulls THEN None ELSE full[k]] }
                    : nulls \in { n \in SUBSET (keys \ gone) :
                                    Cardinality(n) + Cardinality(gone) <= MaxOmit } }
            : gone \in { g \in SUBSET keys : Cardinality(g) <= MaxOmit } }

\* What `yf.Ticker(sym).info` gives the resolver: an exception, or a dict in
\* which regularMarketPrice is absent, None, zero or a price.
ProbeInfos ==
    { Raise, << >>,
      [regularMarketPrice |-> None],
      [regularMarketPrice |-> "0"],
      [regularMarketPrice |-> "7"] }

\* Tables with at most MaxRows rows whose columns deviate from `columns`
\* (a column left out, or holding NaN in every row) in at most MaxOmit
\* columns.  The cell of a column that is present and not NaN is the
\* column's ordinary value.
Frames(columns) ==
    UNION { { [rows |-> n, cols |-> columns \ gone, nan |-> nans]
              : n \in 0..MaxRows,
                nans \in { x \in SUBSET (columns \ gone) :
                             Cardinality(x) + Cardinality(gone) <= MaxOmit } }
            : gone \in { g \in SUBSET columns : Cardinality(g) <= MaxOmit } }

\* DataFrame.empty: some axis has length 0.
empty(frame) == frame.rows = 0 \/ frame.cols = {}

\* One logged request: the operation, the symbol it is addressed to, its
\* argument, what came back, and whether the resolver or the tool body sent it.
Call(op, target, arg, out, by) ==
    [op |-> op, target |-> target, arg |-> arg, out |-> out, by |-> by]

Tools ==
    { "get_stock_quote", "get_company_overview", "get_time_series_daily",
      "search_symbol", "get_recommendations", "get_insider_transactions",
      "get_technical_indicators" }

SymbolTools == Tools \ { "search_symbol" }

\* ------------------------------------------------------------------ Init
Init ==
    /\ pc = "idle"
    /\ tool = "none"
    /\ args = NoLocals
    /\ symbol = << >>
    /\ calls = << >>
    /\ locals = NoLocals
    /\ response = NoResponse
    /\ raised = FALSE

\* ------------------------------------------------- resolve_indian_symbol
\* Mutant: the price is tested for truth instead of `is not None`.
HasPrice_truthy(info) ==
    get(info, "regularMarketPrice", None) \notin { None, "0" }

\* The result of one probe, as the resolver reads it (lines 20 and 29).
HasPrice(info) == get(info, "regularMarketPrice", None) # None

\* Lines 13-14: entry of the resolver, run as the first statement of each
\* symbol-taking tool.  Already suffixed: return as is, no probe.
resolve_indian_symbol(t, a) ==
    /\ pc = "idle"
    /\ tool' = t
    /\ args' = a
    /\ calls' = << >>
    /\ locals' = NoLocals
    /\ response' = NoResponse
    /\ raised' = FALSE
    /\ symbol' = a.symbol
    /\ IF \E i \in 1..Len(INDIAN_SUFFIXES) : endswith(a.symbol, INDIAN_SUFFIXES[i])
       THEN pc' = "request"
       ELSE pc' = "tryNSE"

\* Mutant: an exception in the NSE probe ends the resolution.
TryNSE_raise_aborts ==
    /\ pc = "tryNSE"
    /\ \E out \in ProbeInfos :
         LET test_symbol == args.symbol \o NS IN
         /\ calls' = Append(calls, Call("info", test_symbol, None, out, "resolver"))
         /\ IF out = Raise
            THEN symbol' = symbol /\ pc' = "request"
            ELSE IF HasPrice(out)
            THEN symbol' = test_symbol /\ pc' = "request"
            ELSE symbol' = symbol /\ pc' = "tryBSE"
    /\ UNCHANGED <<tool, args, locals, response, raised>>

\* Lines 16-23: try NSE first.
TryNSE ==
    /\ pc = "tryNSE"
    /\ \E out \in ProbeInfos :
         LET test_symbol == args.symbol \o NS IN
         /\ calls' = Append(calls, Call("info", test_symbol, None, out, "resolver"))
         /\ IF out # Raise /\ HasPrice(out)
            THEN symbol' = test_symbol /\ pc' = "request"
            ELSE symbol' = symbol /\ pc' = "tryBSE"
    /\ UNCHANGED <<tool, args, locals, response, raised>>

\* Lines 25-34: try BSE, else return the original.
TryBSE ==
    /\ pc = "tryBSE"
    /\ \E out \in ProbeInfos :
         LET test_symbol == args.symbol \o BO IN
         /\ calls' = Append(calls, Call("info", test_symbol, None, out, "resolver"))
         /\ IF out # Raise /\ HasPrice(out)
            THEN symbol' = test_symbol
            ELSE symbol' = args.symbol
         /\ pc' = "request"
    /\ UNCHANGED <<tool, args, locals, response, raised>>

\* The handler returns `resp` to the transport layer.
Return(resp) ==
    /\ response' = resp
    /\ raised' = FALSE
    /\ pc' = "done"

\* An exception leaves the handler.
Propagate ==
    /\ response' = NoResponse
    /\ raised' = TRUE
    /\ pc' = "done"

\* -------------------------------------------------------- get_stock_quote
QuoteFull ==
    [regularMarketPrice |-> "7", regularMarketChange |-> "7",
     regularMarketChangePercent |-> "7", regularMarketVolume |-> "7"]

QuoteInfos == { Raise } \cup Dicts(QuoteFull)

\* Lines 57-64.
QuoteRecord(sym, info) ==
    [symbol |-> sym,
     price |-> get(info, "regularMarketPrice", "0"),
     change |-> get(info, "regularMarketChange", "0"),
     changePercent |-> get(info, "regularMarketChangePercent", "0"),
     volume |-> get(info, "regularMarketVolume", "0"),
     timestamp |-> "now"]

\* Lines 54-67.
get_stock_quote ==
    /\ pc = "request" /\ tool = "get_stock_quote"
    /\ \E info \in QuoteInfos :
         /\ calls' = Append(calls, Call("info", symbol, None, info, "tool"))
         /\ IF info = Raise
            THEN Return([error |-> <<"Failed to fetch quote for ", symbol>>])
            ELSE Return(QuoteRecord(symbol, info))
    /\ UNCHANGED <<tool, args, symbol, locals>>

\* --------------------------------------------------- get_company_overview
OverviewFull ==
    [longName |-> "x", sector |-> "x", industry |-> "x", marketCap |-> "7",
     trailingPE |-> "7", forwardPE |-> "7", dividendYield |-> "7",
     fiftyTwoWeekHigh |-> "7", fiftyTwoWeekLow |-> "7"]

OverviewInfos == { Raise } \cup Dicts(OverviewFull)

\* Lines 83-93.
OverviewRecord(info) ==
    [name |-> get(info, "longName", ""),
     sector |-> get(info, "sector", ""),
     industry |-> get(info, "industry", ""),
     marketCap |-> get(info, "marketCap", "0"),
     peRatio |-> get(info, "trailingPE", "0"),
     forwardPE |-> get(info, "forwardPE", "0"),
     dividendYield |-> get(info, "dividendYield", "0"),
     52WeekHigh |-> get(info, "fiftyTwoWeekHigh", "0"),
     52WeekLow |-> get(info, "fiftyTwoWeekLow", "0")]

\* Lines 80-96.
get_company_overview ==
    /\ pc = "request" /\ tool = "get_company_overview"
    /\ \E info \in OverviewInfos :
         /\ calls' = Append(calls, Call("info", symbol, None, info, "tool"))
         /\ IF info = Raise
            THEN Return([error |-> <<"Failed to fetch company overview for ", symbol>>])
            ELSE Return(OverviewRecord(info))
    /\ UNCHANGED <<tool, args, symbol, locals>>

\* -------------------------------------------------- get_time_series_daily
OHLCV == { "Open", "High", "Low", "Close", "Volume" }

\* What `stock.history(period=...)` gives: an exception or a table indexed
\* by date.  NaN cells are passed through unchanged by every reader of the
\* history, so they are not distinguished here.
Histories == { Raise } \cup { f \in Frames(OHLCV) : f.nan = {} }

Outputsizes == { "compact", "full" }

\* Line 112.
PeriodOf(outputsize) == IF outputsize = "compact" THEN "3mo" ELSE "max"

\* date.isoformat() of the i-th index entry.
isoformat(i) == <<"iso", i>>
\* str(index) of the i-th index entry.
str(i) == <<"str", i>>
\* The cell of column c in row i.
Cell(c, i) == <<c, i>>

\* Lines 116-124: row[c] raises KeyError when the column is missing.
SeriesRaises(history) == history.rows > 0 /\ ~(OHLCV \subseteq history.cols)

\* Lines 115-124.
SeriesData(history) ==
         [i \in 1..history.rows |->
            [date |-> isoformat(i),
             open |-> Cell("Open", i), high |-> Cell("High", i),
             low |-> Cell("Low", i), close |-> Cell("Close", i),
             volume |-> Cell("Volume", i)]]

\* Mutant: the history is requested for the caller's symbol, not the
\* resolved one.
get_time_series_daily_raw ==
    /\ pc = "request" /\ tool = "get_time_series_daily"
    /\ \E history \in Histories :
         /\ calls' = Append(calls, Call("history", args.symbol,
                                        PeriodOf(args.outputsize), history, "tool"))
         /\ IF history = Raise \/ SeriesRaises(history)
            THEN Return([error |-> <<"Failed to fetch time series for ", symbol>>])
            ELSE Return([symbol |-> symbol, timeSeriesDaily |-> SeriesData(history)])
    /\ UNCHANGED <<tool, args, symbol, locals>>

\* Lines 110-132.
get_time_series_daily ==
    /\ pc = "request" /\ tool = "get_time_series_daily"
    /\ \E history \in Histories :
         /\ calls' = Append(calls, Call("history", symbol, PeriodOf(args.outputsize),
                                        history, "tool"))
         /\ IF history = Raise \/ SeriesRaises(history)
            THEN Return([error |-> <<"Failed to fetch time series for ", symbol>>])
            ELSE Return([symbol |-> symbol, timeSeriesDaily |-> SeriesData(history)])
    /\ UNCHANGED <<tool, args, symbol, locals>>

\* ---------------------------------------------------- get_recommendations
RecCounts == { "strongBuy", "buy", "hold", "sell", "strongSell" }
RecCols == { "period" } \cup RecCounts

\* What `stock.recommendations` gives: an exception, None, or a table.
Recommendations == { Raise, NoneFrame } \cup Frames(RecCols)

\* row.get(c, default) of a table row.
rowget(frame, c, value, default) ==
    IF c \notin frame.cols THEN default
    ELSE IF c \in frame.nan THEN NaN ELSE value

\* int(x): raises ValueError on NaN, else the integer.
intRaises(x) == x = NaN
int(x) == x
\* float(x): NaN stays NaN, an integer gains its fraction.
float(x) == IF x = NaN THEN NaN ELSE IF x = "0" THEN "0.0" ELSE "7.0"

\* Lines 208-212: a count that is NaN makes int() raise.
RecRaises(frame) ==
    frame.rows > 0 /\ \E c \in RecCounts : intRaises(rowget(frame, c, "7", "0"))

\* Lines 204-214.
RecRows(frame) ==
         [i \in 1..frame.rows |->
            [period |-> rowget(frame, "period", "p", str(i)),
             strongBuy |-> int(rowget(frame, "strongBuy", "7", "0")),
             buy |-> int(rowget(frame, "buy", "7", "0")),
             hold |-> int(rowget(frame, "hold", "7", "0")),
             sell |-> int(rowget(frame, "sell", "7", "0")),
             strongSell |-> int(rowget(frame, "strongSell", "7", "0"))]]

\* Mutant: no recommendations is reported as a failure.
get_recommendations_empty_fails ==
    /\ pc = "request" /\ tool = "get_recommendations"
    /\ \E recommendations \in Recommendations :
         /\ calls' = Append(calls, Call("recommendations", symbol, None,
                                        recommendations, "tool"))
         /\ IF recommendations = Raise \/ recommendations = NoneFrame
               \/ empty(recommendations) \/ RecRaises(recommendations)
            THEN Return([error |-> <<"Failed to fetch recommendations for ", symbol>>])
            ELSE Return([symbol |-> symbol,
                         recommendations |-> RecRows(recommendations)])
    /\ UNCHANGED <<tool, args, symbol, locals>>

\* Lines 193-222.
get_recommendations ==
    /\ pc = "request" /\ tool = "get_recommendations"
    /\ \E recommendations \in Recommendations :
         /\ calls' = Append(calls, Call("recommendations", symbol, None,
                                        recommendations, "tool"))
         /\ IF recommendations = Raise
            THEN Return([error |-> <<"Failed to fetch recommendations for ", symbol>>])
            ELSE IF recommendations = NoneFrame \/ empty(recommendations)
            THEN Return([symbol |-> symbol, recommendations |-> << >>])
            ELSE IF RecRaises(recommendations)
            THEN Return([error |-> <<"Failed to fetch recommendations for ", symbol>>])
            ELSE Return([symbol |-> symbol,
                         recommendations |-> RecRows(recommendations)])
    /\ UNCHANGED <<tool, args, symbol, locals>>

\* ------------------------------------------------ get_insider_transactions
InsiderCols ==
    { "Insider", "Position", "Transaction", "Shares", "Value", "URL", "Text",
      "Start Date", "Ownership" }

\* What `stock.insider_transactions` gives: an exception, None, or a table.
InsiderTables == { Raise, NoneFrame } \cup Frames(InsiderCols)

\* Line 252: a share count that is NaN makes int() raise.
InsiderRaises(frame) ==
    frame.rows > 0 /\ intRaises(rowget(frame, "Shares", "7", "0"))

\* Lines 245-259.
InsiderRows(frame) ==
         [i \in 1..frame.rows |->
            [date |-> str(i),
             insider |-> rowget(frame, "Insider", "x", ""),
             position |-> rowget(frame, "Position", "x", ""),
             transactionType |-> rowget(frame, "Transaction", "x", ""),
             shares |-> int(rowget(frame, "Shares", "7", "0")),
             value |-> float(rowget(frame, "Value", "7", "0")),
             url |-> rowget(frame, "URL", "x", ""),
             text |-> rowget(frame, "Text", "x", ""),
             startDate |-> rowget(frame, "Start Date", "x", ""),
             ownership |-> rowget(frame, "Ownership", "x", "")]]

\* Lines 235-267.
get_insider_transactions ==
    /\ pc = "request" /\ tool = "get_insider_transactions"
    /\ \E insider \in InsiderTables :
         /\ calls' = Append(calls, Call("insider_transactions", symbol, None,
                                        insider, "tool"))
         /\ IF insider = Raise
            THEN Return([error |-> <<"Failed to fetch insider transactions for ", symbol>>])
            ELSE IF insider = NoneFrame \/ empty(insider)
            THEN Return([symbol |-> symbol, transactions |-> << >>])
            ELSE IF InsiderRaises(insider)
            THEN Return([error |-> <<"Failed to fetch insider transactions for ", symbol>>])
            ELSE Return([symbol |-> symbol, transactions |-> InsiderRows(insider)])
    /\ UNCHANGED <<tool, args, symbol, locals>>

\* ---------------------------------------------------------- search_symbol
KwAlphabet == { "A", "B", " " }

RECURSIVE StringsUpTo(_)
\* The strings over KwAlphabet of at most n characters.
StringsUpTo(n) ==
    IF n = 0 THEN { << >> }
    ELSE LET shorter == StringsUpTo(n - 1) IN
         shorter \cup { Append(w, c) : w \in shorter, c \in KwAlphabet }

KeywordInputs == StringsUpTo(MaxKwLen)

RECURSIVE splitFrom(_, _, _, _)
\* str.split() without arguments: the maximal runs of non-blank characters.
splitFrom(s, i, word, acc) ==
    LET flushed == IF word = << >> THEN acc ELSE Append(acc, word) IN
    IF i > Len(s) THEN flushed
    ELSE IF s[i] = " " THEN splitFrom(s, i + 1, << >>, flushed)
    ELSE splitFrom(s, i + 1, Append(word, s[i]), acc)

split(s) == splitFrom(s, 1, << >>, << >>)

\* What `yf.Ticker(sym).info` gives the search: an exception, or a dict in
\* which longName is absent, empty or a name.
SearchInfos ==
    { Raise, << >>,
      [longName |-> ""],
      [longName |-> "x"],
      [longName |-> "x", quoteType |-> "EQUITY", exchange |-> "NSI"] }

\* Truth value of a Python string or None.
truthy(x) == x # None /\ x # ""

\* Lines 153 and 168.
HasName(info) == truthy(get(info, "longName", None))

\* Lines 154-159 and 169-174.
SearchEntry(sym, info) ==
    [symbol |-> sym,
     name |-> get(info, "longName", ""),
     type |-> get(info, "quoteType", ""),
     exchange |-> get(info, "exchange", "")]

\* The j-th symbol tried for a keyword: the two suffixed forms (lines
\* 149-150), then the keyword itself (line 167).
Candidate(kw, j) ==
    IF j <= Len(INDIAN_SUFFIXES) THEN kw \o INDIAN_SUFFIXES[j] ELSE kw

LastCandidate == Len(INDIAN_SUFFIXES) + 1

\* Lines 145-147 and 177: entry of the search; without keywords the loop
\* body never runs.
search_symbol(a) ==
    /\ pc = "idle"
    /\ tool' = "search_symbol"
    /\ args' = a
    /\ calls' = << >>
    /\ symbol' = << >>
    /\ IF split(a.keywords) = << >>
       THEN /\ locals' = NoLocals
            /\ Return([results |-> << >>])
       ELSE /\ locals' = [keywords |-> split(a.keywords), k |-> 1, j |-> 1,
                          results |-> << >>]
            /\ response' = NoResponse
            /\ raised' = FALSE
            /\ pc' = "search"

\* Mutant: a resolved regional variant does not end the keyword (no break).
SearchAdvance_no_break(k, j, found) ==
    IF j = LastCandidate THEN <<k + 1, 1>> ELSE <<k, j + 1>>

\* Where the loops of lines 147-176 go after the j-th candidate of the k-th
\* keyword: found (break, next keyword), next candidate, or next keyword.
SearchAdvance(k, j, found) ==
    IF found \/ j = LastCandidate THEN <<k + 1, 1>> ELSE <<k, j + 1>>

\* Lines 147-177: one lookup of the search loop and what follows it up to
\* the next lookup or the return.
SearchProbe ==
    /\ pc = "search"
    /\ \E info \in SearchInfos :
         LET kw == locals.keywords[locals.k]
             test_symbol == Candidate(kw, locals.j)
             found == info # Raise /\ HasName(info)
             results == IF found
                        THEN Append(locals.results, SearchEntry(test_symbol, info))
                        ELSE locals.results
             to == SearchAdvance(locals.k, locals.j, found)
         IN
         /\ calls' = Append(calls, Call("info", test_symbol, locals.k, info, "tool"))
         /\ locals' = [locals EXCEPT !.k = to[1], !.j = to[2], !.results = results]
         /\ IF to[1] > Len(locals.keywords)
            THEN Return([results |-> results])
            ELSE /\ pc' = "search"
                 /\ UNCHANGED <<response, raised>>
    /\ UNCHANGED <<tool, args, symbol>>

\* ------------------------------------------------ get_technical_indicators
\* Line 287-289.
default_indicators ==
    << "sma", "ema", "wma", "hma", "rsi", "stoch", "macd", "bbands", "adx",
       "atr", "cci", "roc", "willr", "obv", "cmf", "mfi", "supertrend" >>

\* The order in which lines 300-350 test for the indicators.
CodeOrder ==
    << "sma", "ema", "wma", "hma", "rsi", "stoch", "macd", "roc", "willr",
       "bbands", "atr", "adx", "obv", "cmf", "mfi", "supertrend", "cci" >>

\* The output keys an indicator writes, each with the column of the
\* library's table it is read from (None: the library returns one series).
Outputs(name) ==
    CASE name = "sma" -> << <<"sma_20", None>> >>
      [] name = "ema" -> << <<"ema_20", None>> >>
      [] name = "wma" -> << <<"wma_20", None>> >>
      [] name = "hma" -> << <<"hma_20", None>> >>
      [] name = "rsi" -> << <<"rsi_14", None>> >>
      [] name = "stoch" -> << <<"stoch_k", "STOCHk_14_3_3">>,
                              <<"stoch_d", "STOCHd_14_3_3">> >>
      [] name = "macd" -> << <<"macd", "MACD_12_26_9">>,
                             <<"macd_signal", "MACDs_12_26_9">>,
                             <<"macd_hist", "MACDh_12_26_9">> >>
      [] name = "roc" -> << <<"roc_10", None>> >>
      [] name = "willr" -> << <<"willr_14", None>> >>
      [] name = "bbands" -> << <<"bbands_upper", "BBU_20_2.0">>,
                               <<"bbands_middle", "BBM_20_2.0">>,
                               <<"bbands_lower", "BBL_20_2.0">> >>
      [] name = "atr" -> << <<"atr_14", None>> >>
      [] name = "adx" -> << <<"adx_14", "ADX_14">> >>
      [] name = "obv" -> << <<"obv", None>> >>
      [] name = "cmf" -> << <<"cmf_20", None>> >>
      [] name = "mfi" -> << <<"mfi_14", None>> >>
      [] name = "supertrend" -> << <<"supertrend", "SUPERT_7_3.0">> >>
      [] name = "cci" -> << <<"cci_20", None>> >>

\* The indicators whose columns are read as `t[col] if col in t else []`.
Guarded == { "stoch", "macd", "bbands", "supertrend" }

Columns(name) == { Outputs(name)[i][2] : i \in 1..Len(Outputs(name)) } \ { None }

\* What the indicator library returns for an indicator: an exception, None
\* (too little data), a series, or a table with some of its columns.
LibResults(name) ==
    { Raise, NoneFrame } \cup
    IF Columns(name) = {}
    THEN { [series |-> TRUE] }
    ELSE { [cols |-> Columns(name) \ gone]
           : gone \in { g \in SUBSET Columns(name) : Cardinality(g) <= MaxOmit } }

\* x.dropna().tolist() of a series the library computed.
Values == << "v" >>

\* Membership in a Python list.
In(x, list) == \E i \in 1..Len(list) : list[i] = x

\* The names callers use, one of them unrecognized.
NameOrder == CodeOrder \o << "bogus" >>

RECURSIVE ListsUpTo(_, _)
\* The lists of at most n names taken from positions `from` onwards of
\* NameOrder, in that order.  The handler reads the list only through
\* `name in indicators`, which sees neither order nor repetition;
\* SampleLists adds lists that are longer, out of order, or repeat a name.
ListsUpTo(n, from) ==
    IF n = 0 \/ from > Len(NameOrder) THEN { << >> }
    ELSE { << >> } \cup
         UNION { { << NameOrder[p] >> \o l : l \in ListsUpTo(n - 1, p + 1) }
                 : p \in from..Len(NameOrder) }

SampleLists ==
    { << "rsi", "rsi" >>, << "rsi", "sma" >>, << "bogus", "macd", "bogus" >>,
      << "cci", "stoch", "cci" >>, << "adx", "bogus" >>,
      << "supertrend", "bbands", "ema" >> }

\* The `indicators` parameter left at its default, None (line 270).
NotSupplied == [supplied |-> FALSE, list |-> << >>]

IndicatorInputs ==
    { NotSupplied } \cup { [supplied |-> TRUE, list |-> l] : l \in ListsUpTo(MaxInd, 1) \cup SampleLists }

\* Mutant: an empty list is replaced by the default set too
\* (`if not indicators`).
Selected_if_not(indicators) ==
    IF indicators.list = << >> THEN default_indicators ELSE indicators.list

\* Lines 290-291.
Selected(indicators) ==
    IF indicators = NotSupplied THEN default_indicators ELSE indicators.list

\* The first position of CodeOrder at or after `from` whose test
\* `name in indicators` succeeds; 0 when there is none.
NextSelected(indicators, from) ==
    LET hits == { p \in from..Len(CodeOrder) : In(CodeOrder[p], indicators) } IN
    IF hits = {} THEN 0 ELSE CHOOSE p \in hits : \A q \in hits : p <= q

\* Whether reading the library's result `out` for `name` raises: the call
\* itself raised, None has neither dropna() nor `in` nor [], and an
\* unguarded column lookup raises KeyError.
ReadRaises(name, out) ==
    \/ out = Raise
    \/ out = NoneFrame
    \/ /\ name \notin Guarded
       /\ Columns(name) # {}
       /\ ~(Columns(name) \subseteq out.cols)

\* The value stored under the i-th output key of `name`.
OutputValue(name, i, out) ==
    LET col == Outputs(name)[i][2] IN
    IF col = None THEN Values
    ELSE IF col \in out.cols THEN Values ELSE << >>

\* result after the block of `name` (lines 300-350) has run on `out`.
Store(result, name, out) ==
    [key \in DOMAIN result \cup { Outputs(name)[i][1] : i \in 1..Len(Outputs(name)) } |->
        IF \E i \in 1..Len(Outputs(name)) : Outputs(name)[i][1] = key
        THEN OutputValue(name, CHOOSE i \in 1..Len(Outputs(name)) :
                                   Outputs(name)[i][1] = key, out)
        ELSE result[key]]

Periods == { "3mo" }

\* The symbols passed to the indicator tool.
IndicatorSymbols == { <<"A">>, <<"A">> \o NS }

\* What `stock.history(period=period)` gives the indicator tool.  Of the
\* number of rows the handler reads only whether it is zero.
IndicatorHistories == { h \in Histories : h = Raise \/ h.rows <= 1 }

\* Mutant: the message of the other tools' failure path.
NoHistoryError_generic(sym) == [error |-> <<"Failed to fetch indicators for ", sym>>]

\* Line 284.
NoHistoryError(sym) == [error |-> <<"No historical data for ", sym>>]

\* Lines 281-297: fetch the history; nothing here is inside a try block.
FetchHistory ==
    /\ pc = "request" /\ tool = "get_technical_indicators"
    /\ \E history \in IndicatorHistories :
         LET indicators == Selected(args.indicators)
             first == NextSelected(indicators, 1)
         IN
         /\ calls' = Append(calls, Call("history", symbol, args.period, history, "tool"))
         /\ IF history = Raise
            THEN Propagate /\ UNCHANGED locals
            ELSE IF empty(history)
            THEN Return(NoHistoryError(symbol))
                 /\ UNCHANGED locals
            ELSE IF ~({ "Close", "High", "Low", "Volume" } \subseteq history.cols)
            THEN Propagate /\ UNCHANGED locals
            ELSE IF first = 0
            THEN Return(<< >>) /\ locals' = [indicators |-> indicators,
                                             result |-> << >>, next |-> 0]
            ELSE /\ locals' = [indicators |-> indicators, result |-> << >>,
                               next |-> first]
                 /\ pc' = "compute"
                 /\ UNCHANGED <<response, raised>>
    /\ UNCHANGED <<tool, args, symbol>>

\* Lines 300-352: the block of the next selected indicator, and the return
\* when no further block is selected.
Compute ==
    /\ pc = "compute"
    /\ LET name == CodeOrder[locals.next] IN
       \E out \in LibResults(name) :
         LET result == Store(locals.result, name, out)
             next == NextSelected(locals.indicators, locals.next + 1)
         IN
         /\ calls' = Append(calls, Call(name, << >>, None, out, "library"))
         /\ IF ReadRaises(name, out)
            THEN Propagate /\ UNCHANGED locals
            ELSE /\ locals' = [locals EXCEPT !.result = result, !.next = next]
                 /\ IF next = 0
                    THEN Return(result)
                    ELSE pc' = "compute" /\ UNCHANGED <<response, raised>>
    /\ UNCHANGED <<tool, args, symbol>>

\* ------------------------------------------------------------------ Next
\* The arguments a caller may pass to tool t.
ArgsOf(t) ==
    CASE t = "get_time_series_daily" ->
           { [symbol |-> s, outputsize |-> o] : s \in RawSymbols, o \in Outputsizes }
      [] t = "get_technical_indicators" ->
           { [symbol |-> s, period |-> p, indicators |-> i]
             : s \in IndicatorSymbols, p \in Periods, i \in IndicatorInputs }
      [] OTHER -> { [symbol |-> s] : s \in RawSymbols }

\* The transport layer invokes a symbol-taking tool, whose first statement
\* is the call of the resolver.
Invoke ==
    \E t \in SymbolTools : \E a \in ArgsOf(t) : resolve_indian_symbol(t, a)

\* The transport layer invokes the search.
InvokeSearch ==
    \E kw \in KeywordInputs : search_symbol([keywords |-> kw])

Next ==
    \/ Invoke
    \/ TryNSE
    \/ TryBSE
    \/ get_stock_quote
    \/ get_company_overview
    \/ get_time_series_daily
    \/ get_recommendations
    \/ get_insider_transactions
    \/ InvokeSearch
    \/ SearchProbe
    \/ FetchHistory
    \/ Compute

Spec == Init /\ [][Next]_vars

\* ================================================================ claims
\* The requests the resolver sent, in order.
Probes == SelectSeq(calls, LAMBDA c : c.by = "resolver")
\* The provider requests the tool body sent, in order.
Requests == SelectSeq(calls, LAMBDA c : c.by = "tool")
\* The indicator-library calls, in order.
LibCalls == SelectSeq(calls, LAMBDA c : c.by = "library")

\* The caller's symbol already carries a regional suffix.
Suffixed(raw) ==
    /\ Len(raw) >= 3
    /\ <<raw[Len(raw) - 2], raw[Len(raw) - 1], raw[Len(raw)]>> \in { NS, BO }

\* A lookup completed without exception and reported a non-null price.
NonNullPrice(out) ==
    /\ out # Raise
    /\ "regularMarketPrice" \in DOMAIN out
    /\ out.regularMarketPrice # None

\* The resolver has returned to the tool.
Resolved == tool \in SymbolTools /\ pc \in { "request", "compute", "done" }

\* C2: the probes of one resolve_indian_symbol(raw) are a prefix of
\* [raw+'.NS', raw+'.BO']: none when raw is already suffixed, otherwise
\* '.NS' first, '.BO' only after the '.NS' probe failed or showed no price,
\* and nothing after a probe that succeeded.
C2_ProbePrefix ==
    tool \in SymbolTools =>
      LET raw == args.symbol
          want == << raw \o NS, raw \o BO >>
      IN
      /\ Len(Probes) <= 2
      /\ \A i \in 1..Len(Probes) :
            /\ Probes[i].op = "info"
            /\ Probes[i].target = want[i]
            /\ i < Len(Probes) => ~NonNullPrice(Probes[i].out)
      /\ Suffixed(raw) => Probes = << >>
      /\ Resolved /\ ~Suffixed(raw) =>
            /\ Len(Probes) >= 1
            /\ Len(Probes) = 1 => NonNullPrice(Probes[1].out)

\* C2 witness: the '.BO' probe was issued after a '.NS' probe without price.
C2_Witness ==
    /\ Resolved
    /\ Len(Probes) = 2
    /\ Probes[1].out = [regularMarketPrice |-> None]
    /\ Probes[2].target = args.symbol \o BO

\* What the resolver must return for `raw` given its probes' outcomes.
Resolution(raw, probes) ==
    IF Suffixed(raw) THEN raw
    ELSE IF Len(probes) >= 1 /\ NonNullPrice(probes[1].out) THEN raw \o NS
    ELSE IF Len(probes) >= 2 /\ NonNullPrice(probes[2].out) THEN raw \o BO
    ELSE raw

\* C3: resolve_indian_symbol never raises and returns raw if suffixed, else
\* raw+'.NS' if that lookup completed with a non-null price, else raw+'.BO'
\* likewise, else raw; an exception in a probe only moves on to the next
\* candidate.
C3_Resolution ==
    /\ pc \in { "tryNSE", "tryBSE", "request" } => ~raised
    /\ Resolved =>
          /\ symbol = Resolution(args.symbol, Probes)
          /\ \A i \in 1..Len(Probes) :
                Probes[i].out = Raise =>
                  IF i = 1 THEN Len(Probes) = 2 ELSE symbol = args.symbol

\* C3 witness: the '.NS' probe raised and the '.BO' candidate was returned.
C3_Witness ==
    /\ Resolved
    /\ Len(Probes) = 2
    /\ Probes[1].out = Raise
    /\ symbol = args.symbol \o BO

\* A keyword lookup completed without exception and gave a non-empty name.
Resolves(out) ==
    /\ out # Raise
    /\ "longName" \in DOMAIN out
    /\ out.longName \notin { None, "" }

\* The lookups made for the k-th keyword, in order.
ProbesOf(k) == SelectSeq(calls, LAMBDA c : c.arg = k)
\* The lookups that resolved, in order.
Hits == SelectSeq(calls, LAMBDA c : Resolves(c.out))

\* C4: search_symbol returns {results: R} with at most one entry per
\* whitespace-separated keyword, in keyword order; the entry's symbol is the
\* first of [kw+'.NS', kw+'.BO', kw] whose lookup gave a non-empty name,
\* nothing is probed for a keyword after a lookup resolved, and a keyword
\* that resolves nowhere (by absence or exception) adds no entry and no error.
C4_SearchResults ==
    tool = "search_symbol" =>
      LET kws == split(args.keywords) IN
      /\ ~raised
      /\ \A k \in 1..Len(kws) :
           LET want == << kws[k] \o NS, kws[k] \o BO, kws[k] >>
               mine == ProbesOf(k)
           IN
           /\ Len(mine) <= 3
           /\ \A i \in 1..Len(mine) :
                /\ mine[i].target = want[i]
                /\ i < Len(mine) => ~Resolves(mine[i].out)
           /\ pc = "done" =>
                /\ Len(mine) >= 1
                /\ Len(mine) < 3 => Resolves(mine[Len(mine)].out)
      /\ \A i \in 1..Len(calls) : calls[i].arg \in 1..Len(kws)
      /\ \A i, j \in 1..Len(calls) : i < j => calls[i].arg <= calls[j].arg
      /\ pc = "done" =>
           /\ DOMAIN response = { "results" }
           /\ Len(response.results) = Len(Hits)
           /\ \A i \in 1..Len(Hits) :
                /\ response.results[i].symbol = Hits[i].target
                /\ response.results[i].name = Hits[i].out.longName

\* C4 witness: "A B"-like input where the first keyword resolved only as the
\* bare keyword after both regional lookups failed (one by exception) and
\* the second through a regional suffix.
C4_Witness ==
    /\ tool = "search_symbol" /\ pc = "done"
    /\ Len(split(args.keywords)) = 2
    /\ Len(response.results) = 2
    /\ response.results[1].symbol = split(args.keywords)[1]
    /\ response.results[2].symbol = split(args.keywords)[2] \o BO
    /\ \E i \in 1..Len(calls) : calls[i].out = Raise

\* C4, second case: of two keywords one resolved nowhere and left no entry.
C4_OmittedReached ==
    /\ tool = "search_symbol" /\ pc = "done"
    /\ Len(split(args.keywords)) = 2
    /\ Len(response.results) = 1

\* The one provider request of a finished symbol-taking tool.
DataOut == Requests[1].out

\* The provider answered with an empty but valid dataset.
EmptyDataset(out) ==
    /\ out # Raise
    /\ out = NoneFrame \/ out.rows = 0

\* C7: an empty-but-valid dataset gives a success response with an empty
\* sequence and no `error` key: {symbol, recommendations: []},
\* {symbol, transactions: []}, {symbol, timeSeriesDaily: []}.
C7_EmptyIsSuccess ==
    pc = "done" /\ tool \in { "get_recommendations", "get_insider_transactions",
                              "get_time_series_daily" }
      /\ EmptyDataset(DataOut) =>
        /\ ~raised
        /\ "error" \notin DOMAIN response
        /\ tool = "get_recommendations" =>
             response = [symbol |-> symbol, recommendations |-> << >>]
        /\ tool = "get_insider_transactions" =>
             response = [symbol |-> symbol, transactions |-> << >>]
        /\ tool = "get_time_series_daily" =>
             response = [symbol |-> symbol, timeSeriesDaily |-> << >>]

\* C7 witness: the provider returned an insider table without rows.
C7_Witness ==
    /\ pc = "done" /\ tool = "get_insider_transactions"
    /\ DataOut # Raise /\ DataOut # NoneFrame /\ DataOut.rows = 0
    /\ response.transactions = << >>

\* C7, the other two tools: None for recommendations, no rows of history.
C7_OthersReached ==
    /\ pc = "done"
    /\ \/ tool = "get_recommendations" /\ DataOut = NoneFrame
       \/ tool = "get_time_series_daily" /\ EmptyDataset(DataOut)

\* C8: get_technical_indicators returns {error: "No historical data for
\* <symbol>"}, <symbol> being the resolver's output, exactly when the
\* fetched history is empty; no indicator has been computed then, and the
\* tool returns no other `error` response.
C8_NoHistoryError ==
    pc = "done" /\ tool = "get_technical_indicators" =>
      LET emptyHistory == DataOut # Raise /\ (DataOut.rows = 0 \/ DataOut.cols = {}) IN
      /\ emptyHistory <=> "error" \in DOMAIN response
      /\ emptyHistory =>
           /\ ~raised
           /\ response = [error |-> <<"No historical data for ",
                                      Resolution(args.symbol, Probes)>>]
           /\ LibCalls = << >>

\* C8 witness: empty history for a symbol the resolver rewrote.
C8_Witness ==
    /\ pc = "done" /\ tool = "get_technical_indicators"
    /\ DataOut # Raise /\ DataOut.rows = 0
    /\ symbol = args.symbol \o NS
    /\ "error" \in DOMAIN response

\* The kind of provider request each symbol-taking tool makes.
KindOf(t) ==
    CASE t \in { "get_stock_quote", "get_company_overview" } -> "info"
      [] t \in { "get_time_series_daily", "get_technical_indicators" } -> "history"
      [] t = "get_recommendations" -> "recommendations"
      [] t = "get_insider_transactions" -> "insider_transactions"

\* C10: a symbol-taking tool resolves the symbol once and then issues
\* exactly one provider request of its kind, addressed to the resolved
\* symbol; that symbol is the one echoed in the response's `symbol` field or
\* error message; a failed request is never re-issued.
C10_OneRequest ==
    tool \in SymbolTools =>
      /\ Len(Requests) <= 1
      /\ \A i \in 1..Len(calls) : calls[i].by = "tool" =>
           /\ calls[i].op = KindOf(tool)
           /\ calls[i].target = Resolution(args.symbol, Probes)
           /\ \A j \in 1..Len(calls) : calls[j].by = "resolver" => j < i
           /\ calls[i].out = Raise => i = Len(calls) /\ pc = "done"
      /\ pc \in { "tryNSE", "tryBSE", "request" } => Requests = << >>
      /\ pc = "done" =>
           /\ Len(Requests) = 1
           /\ "symbol" \in DOMAIN response =>
                response.symbol = Resolution(args.symbol, Probes)
           /\ "error" \in DOMAIN response =>
                response.error[2] = Resolution(args.symbol, Probes)

\* C10 witness: a time-series request to the '.BO' form failed and the
\* invocation ended with the error naming that form.
C10_Witness ==
    /\ pc = "done" /\ tool = "get_time_series_daily"
    /\ Len(Probes) = 2
    /\ Requests[1].target = args.symbol \o BO
    /\ Requests[1].out = Raise
    /\ response.error[2] = args.symbol \o BO

\* The documented output keys of each recognized indicator name.
DocumentedKeys(name) ==
    CASE name = "sma" -> { "sma_20" }
      [] name = "ema" -> { "ema_20" }
      [] name = "wma" -> { "wma_20" }
      [] name = "hma" -> { "hma_20" }
      [] name = "rsi" -> { "rsi_14" }
      [] name = "stoch" -> { "stoch_k", "stoch_d" }
      [] name = "macd" -> { "macd", "macd_signal", "macd_hist" }
      [] name = "roc" -> { "roc_10" }
      [] name = "willr" -> { "willr_14" }
      [] name = "bbands" -> { "bbands_upper", "bbands_middle", "bbands_lower" }
      [] name = "atr" -> { "atr_14" }
      [] name = "adx" -> { "adx_14" }
      [] name = "obv" -> { "obv" }
      [] name = "cmf" -> { "cmf_20" }
      [] name = "mfi" -> { "mfi_14" }
      [] name = "supertrend" -> { "supertrend" }
      [] name = "cci" -> { "cci_20" }
      [] OTHER -> {}

\* The 17 names of the default set.
DefaultNames ==
    { "sma", "ema", "wma", "hma", "rsi", "stoch", "macd", "bbands", "adx", "atr",
      "cci", "roc", "willr", "obv", "cmf", "mfi", "supertrend" }

\* The names the caller selected: the default set only when no list was
\* supplied.
Chosen(indicators) ==
    IF indicators.supplied
    THEN { indicators.list[i] : i \in 1..Len(indicators.list) }
    ELSE DefaultNames

\* The history came back with rows and the columns the handler reads.
HistoryUsable(out) ==
    /\ out # Raise
    /\ out.rows > 0
    /\ { "Close", "High", "Low", "Volume" } \subseteq out.cols

\* C6: for non-empty history the key set of the mapping returned by
\* get_technical_indicators is the union of the documented keys of the
\* recognized names in `indicators`; unrecognized names add no key and no
\* error; the default set is used only when `indicators` is not supplied.
C6_KeySet ==
    pc = "done" /\ tool = "get_technical_indicators" /\ HistoryUsable(DataOut) =>
      /\ ~raised =>
           DOMAIN response = UNION { DocumentedKeys(n) : n \in Chosen(args.indicators) }
      /\ Chosen(args.indicators) \cap DefaultNames = {} =>
           ~raised /\ response = << >> /\ LibCalls = << >>
      /\ \A i \in 1..Len(LibCalls) : LibCalls[i].op \in Chosen(args.indicators)

\* C6 witness: indicators = ['rsi'] returned exactly {rsi_14}.
C6_Witness ==
    /\ pc = "done" /\ tool = "get_technical_indicators"
    /\ args.indicators = [supplied |-> TRUE, list |-> << "rsi" >>]
    /\ ~raised
    /\ DOMAIN response = { "rsi_14" }

\* C6, other cases: the default set returned all its keys; a list with an
\* unrecognized name returned the keys of the recognized one.
C6_DefaultReached ==
    /\ pc = "done" /\ tool = "get_technical_indicators"
    /\ ~args.indicators.supplied
    /\ ~raised
    /\ Cardinality(DOMAIN response) = 24

C6_MixedReached ==
    /\ pc = "done" /\ tool = "get_technical_indicators"
    /\ args.indicators.list = << "bogus", "macd", "bogus" >>
    /\ DOMAIN response = { "macd", "macd_signal", "macd_hist" }

\* C1: in each of the seven tools an exception of the external call or of
\* the reshaping is caught and the invocation ends with a response whose
\* only field is `error`; no exception propagates to the transport layer.
\* (The lookups of search_symbol that fail are skipped per keyword, C4; the
\* `error`-only part is stated for the six tools that make one request.)
C1_NeverRaises ==
    /\ ~raised
    /\ pc = "done" /\ tool \in SymbolTools
         /\ (\E i \in 1..Len(calls) :
                calls[i].by \in { "tool", "library" } /\ calls[i].out = Raise) =>
           DOMAIN response = { "error" }

\* The declared sub-series of the multi-output transforms: column of the
\* library's result and output key.
SubSeries(name) ==
    CASE name = "stoch" -> { <<"STOCHk_14_3_3", "stoch_k">>,
                             <<"STOCHd_14_3_3", "stoch_d">> }
      [] name = "macd" -> { <<"MACD_12_26_9", "macd">>,
                            <<"MACDs_12_26_9", "macd_signal">>,
                            <<"MACDh_12_26_9", "macd_hist">> }
      [] name = "bbands" -> { <<"BBU_20_2.0", "bbands_upper">>,
                              <<"BBM_20_2.0", "bbands_middle">>,
                              <<"BBL_20_2.0", "bbands_lower">> }
      [] OTHER -> {}

\* The sub-series column is absent from what the library returned (None is
\* what it returns when the data is insufficient).
ColumnAbsent(out, col) == out = NoneFrame \/ col \notin out.cols

\* C5: whenever a declared sub-series key of stoch, macd or bbands is absent
\* from the library's result, the insufficient-data case included, the call
\* still returns a success mapping whose corresponding output key is present
\* and holds an empty sequence.
C5_AbsentKeyEmpty ==
    pc = "done" /\ tool = "get_technical_indicators" =>
      \A i \in 1..Len(LibCalls) :
        LibCalls[i].out # Raise =>
          \A sub \in SubSeries(LibCalls[i].op) :
            ColumnAbsent(LibCalls[i].out, sub[1]) =>
              /\ ~raised
              /\ sub[2] \in DOMAIN response
              /\ response[sub[2]] = << >>

\* The declared fields of each record with the upstream key or column they
\* come from and the default of their type.
Schema(t) ==
    CASE t = "get_stock_quote" ->
           { <<"price", "regularMarketPrice", "0">>,
             <<"change", "regularMarketChange", "0">>,
             <<"changePercent", "regularMarketChangePercent", "0">>,
             <<"volume", "regularMarketVolume", "0">> }
      [] t = "get_company_overview" ->
           { <<"name", "longName", "">>, <<"sector", "sector", "">>,
             <<"industry", "industry", "">>, <<"marketCap", "marketCap", "0">>,
             <<"peRatio", "trailingPE", "0">>, <<"forwardPE", "forwardPE", "0">>,
             <<"dividendYield", "dividendYield", "0">>,
             <<"52WeekHigh", "fiftyTwoWeekHigh", "0">>,
             <<"52WeekLow", "fiftyTwoWeekLow", "0">> }
      [] t = "get_time_series_daily" ->
           { <<"open", "Open", "0">>, <<"high", "High", "0">>, <<"low", "Low", "0">>,
             <<"close", "Close", "0">>, <<"volume", "Volume", "0">> }
      [] t = "get_recommendations" ->
           { <<"period", "period", "">>, <<"strongBuy", "strongBuy", "0">>,
             <<"buy", "buy", "0">>, <<"hold", "hold", "0">>, <<"sell", "sell", "0">>,
             <<"strongSell", "strongSell", "0">> }
      [] t = "get_insider_transactions" ->
           { <<"insider", "Insider", "">>, <<"position", "Position", "">>,
             <<"transactionType", "Transaction", "">>, <<"shares", "Shares", "0">>,
             <<"value", "Value", "0">>, <<"url", "URL", "">>, <<"text", "Text", "">>,
             <<"startDate", "Start Date", "">>, <<"ownership", "Ownership", "">> }

\* The key under which a table tool returns its rows.
CollectionOf(t) ==
    CASE t = "get_time_series_daily" -> "timeSeriesDaily"
      [] t = "get_recommendations" -> "recommendations"
      [] t = "get_insider_transactions" -> "transactions"

\* v is the default `d` of its type (0 and 0.0 are both the number zero).
IsDefault(v, d) == IF d = "0" THEN v \in { "0", "0.0" } ELSE v = d

\* C9: every non-error response of the five record tools has every declared
\* field, and a field whose upstream source is omitted carries the default
\* of its type (0, "", empty sequence); the omission neither drops the
\* field nor makes the response an error.
C9_FieldsDefaulted ==
    /\ pc = "done" /\ tool \in { "get_stock_quote", "get_company_overview" }
         /\ DataOut # Raise =>
           /\ "error" \notin DOMAIN response
           /\ \A f \in Schema(tool) :
                /\ f[1] \in DOMAIN response
                /\ f[2] \notin DOMAIN DataOut => response[f[1]] = f[3]
    /\ pc = "done" /\ tool \in { "get_time_series_daily", "get_recommendations",
                                 "get_insider_transactions" }
         /\ DataOut # Raise /\ DataOut # NoneFrame /\ DataOut.nan = {} =>
           /\ "error" \notin DOMAIN response
           /\ DOMAIN response = { "symbol", CollectionOf(tool) }
           /\ \A i \in 1..Len(response[CollectionOf(tool)]) :
                \A f \in Schema(tool) :
                  /\ f[1] \in DOMAIN response[CollectionOf(tool)][i]
                  /\ f[2] \notin DataOut.cols =>
                       IsDefault(response[CollectionOf(tool)][i][f[1]], f[3])

\* C9, the part the record tools keep: quote and overview responses carry
\* every declared field, with the default where the key is omitted.
C9_DictToolsDefaulted ==
    pc = "done" /\ tool \in { "get_stock_quote", "get_company_overview" }
      /\ DataOut # Raise =>
        /\ "error" \notin DOMAIN response
        /\ \A f \in Schema(tool) :
             /\ f[1] \in DOMAIN response
             /\ f[2] \notin DOMAIN DataOut => response[f[1]] = f[3]

====
